---- MODULE Spec2Model ----
(***************************************************************************)
(* A model of the Juncture SDK: the JunctureFrontend and JunctureBackend   *)
(* clients, their constructors, their accessors, their remote-calling      *)
(* operations and the error normalisation they share.                      *)
(*                                                                         *)
(* The transport (axios) and the remote service are the environment: a     *)
(* request that was sent settles with any response or failure of the sets  *)
(* below.  The caller is the environment too: it constructs clients,       *)
(* invokes their operations and writes to the objects it holds.            *)
(***************************************************************************)
EXTENDS Integers, Sequences, FiniteSets, TLC

VARIABLES
    heap,       \* the objects shared by reference: address -> fields
    clients,    \* per client: not constructed, constructed, or failed
    calls,      \* per call slot of the caller: the operation in progress
    window,     \* TRUE when the global `window` is defined
    writes,     \* number of writes the caller has made to objects it holds
    normIn,     \* SpecNormalize: the failure handed to handleError
    normOut     \* SpecNormalize: the error handleError built from it

vars == <<heap, clients, calls, window, writes, normIn, normOut>>

-----------------------------------------------------------------------------
(* JavaScript values.  A value is a tuple whose first element is its type, *)
(* so that values of different types can be compared.                      *)

Undefined == <<"undefined">>
Null == <<"null">>
Str(s) == <<"string", s>>
Bool(b) == <<"boolean", b>>
Num(n) == <<"number", n>>
Obj(fields) == <<"object", fields>>
Arr(items) == <<"array", items>>
Ref(addr) == <<"ref", addr>>

TypeOf(v) == v[1]
IsNullish(v) == TypeOf(v) \in {"undefined", "null"}

\* ToBoolean: what `if (v)`, `!v`, `v || d` and `v ? a : b` test.
Truthy(v) ==
    CASE TypeOf(v) = "undefined" -> FALSE
      [] TypeOf(v) = "null" -> FALSE
      [] TypeOf(v) = "string" -> v[2] # ""
      [] TypeOf(v) = "boolean" -> v[2]
      [] TypeOf(v) = "number" -> v[2] # 0
      [] OTHER -> TRUE

\* a || b
Or(a, b) == IF Truthy(a) THEN a ELSE b

\* ToString: what a template literal `${v}` and `new Error(v)` apply.
ToStr(v) ==
    CASE TypeOf(v) = "undefined" -> "undefined"
      [] TypeOf(v) = "null" -> "null"
      [] TypeOf(v) = "string" -> v[2]
      [] TypeOf(v) = "boolean" -> (IF v[2] THEN "true" ELSE "false")
      [] TypeOf(v) = "number" -> ToString(v[2])
      [] OTHER -> "[object Object]"

\* v.k for a v that is neither undefined nor null (own fields only).
Get(v, k) ==
    IF TypeOf(v) = "object" /\ k \in DOMAIN v[2] THEN v[2][k] ELSE Undefined

\* v?.k
OptGet(v, k) == IF IsNullish(v) THEN Undefined ELSE Get(v, k)

\* An object with no fields.
NoFields == [k \in {} |-> Undefined]

\* fields with k set to v (obj.k = v)
WithField(fields, k, v) ==
    [x \in DOMAIN fields \cup {k} |-> IF x = k THEN v ELSE fields[x]]

-----------------------------------------------------------------------------
(* Errors.  `name` is the constructor of the error object, `isAxiosError`  *)
(* what axios.isAxiosError answers for it, `response` the failed response  *)
(* (undefined when the request got none), `config` the configuration of    *)
(* the request that failed, its headers included (axios errors only).      *)

\* new Error(message)
NewError(message) ==
    [name |-> "Error",
     message |-> IF message = Undefined THEN Str("") ELSE Str(ToStr(message)),
     isAxiosError |-> FALSE,
     response |-> Undefined,
     config |-> Undefined]

\* The TypeError the engine raises on reading field k of undefined or null.
TypeErrorOn(v, k) ==
    [name |-> "TypeError",
     message |-> Str("Cannot read properties of " \o ToStr(v)
                     \o " (reading '" \o k \o "')"),
     isAxiosError |-> FALSE,
     response |-> Undefined,
     config |-> Undefined]

\* The error axios rejects with; response is Undefined or Obj([status, data]).
AxiosError(message, response) ==
    [name |-> "AxiosError",
     message |-> message,
     isAxiosError |-> TRUE,
     response |-> response,
     config |-> Undefined]

\* The same error as axios raises it for a request sent with these headers.
OfRequestWith(error, headers) ==
    IF error.isAxiosError
    THEN [error EXCEPT !.config = Obj([headers |-> headers])]
    ELSE error

Response(status, data) == Obj([status |-> Num(status), data |-> data])

\* What a function call ends with.
Return(v) == [kind |-> "return", value |-> v, error |-> NewError(Undefined)]
Throw(e) == [kind |-> "throw", value |-> Undefined, error |-> e]

-----------------------------------------------------------------------------
(* The error normalisation of the two clients.                             *)

\* handleError handing back the error it was given.
handleErrorRethrow(error, defaultMessage) == error

\* handleError preferring the transport's message to the remote error string.
handleErrorTransportFirst(error, defaultMessage) ==
    IF error.isAxiosError
    THEN LET errorData == OptGet(error.response, "data")
             message == Or(Or(error.message, OptGet(errorData, "error")),
                           Str(defaultMessage))
             details == OptGet(errorData, "details")
             fullMessage == IF Truthy(details)
                            THEN Str(ToStr(message) \o ": " \o ToStr(details))
                            ELSE message
         IN  NewError(fullMessage)
    ELSE NewError(Or(error.message, Str(defaultMessage)))

\* JunctureBackend.handleError(error, defaultMessage)
handleError(error, defaultMessage) ==
    IF error.isAxiosError
    THEN LET errorData == OptGet(error.response, "data")
             message == Or(Or(OptGet(errorData, "error"), error.message),
                           Str(defaultMessage))
             details == OptGet(errorData, "details")
             fullMessage == IF Truthy(details)
                            THEN Str(ToStr(message) \o ": " \o ToStr(details))
                            ELSE message
         IN  NewError(fullMessage)
    ELSE NewError(Or(error.message, Str(defaultMessage)))

\* JunctureFrontend.handleError(error, defaultMessage)
frontendHandleError(error, defaultMessage) ==
    IF error.isAxiosError
    THEN LET errorData == OptGet(error.response, "data")
             message == Or(Or(OptGet(errorData, "error"), error.message),
                           Str(defaultMessage))
             details == OptGet(errorData, "details")
             fullMessage == IF Truthy(details)
                            THEN Str(ToStr(message) \o ": " \o ToStr(details))
                            ELSE message
         IN  NewError(fullMessage)
    ELSE NewError(Or(error.message, Str(defaultMessage)))

-----------------------------------------------------------------------------
(* The clients.                                                            *)

\* The instances a caller may construct: one JunctureFrontend and two
\* JunctureBackend.  `clients` holds those it works with.
Frontends == {"frontend"}
Backends == {"backend", "backend2"}
Clients == Frontends \cup Backends

\* One instance of each class.
OneOfEach == {"frontend", "backend"}

\* Addresses of the objects held by reference.
ConfigAddr(c) == <<"config", c>>
HttpAddr(c) == <<"httpClient", c>>
RetAddr(k) == <<"returned", k>>

\* The configurations a caller supplies.
ApiUrl == "https://api.example.com"
PublicKey == "pk-live"
SecretKey == "sk-live"
OtherSecretKey == "sk-test"
ApiUrls == {Undefined, Str(""), Str(ApiUrl)}
PublicKeys == {Undefined, Str(""), Str(PublicKey)}
SecretKeys == {Undefined, Str(""), Str(SecretKey)}
\* The keys the second JunctureBackend is constructed with.
OtherSecretKeys == {Undefined, Str(OtherSecretKey)}

KeyField(c) == IF c \in Frontends THEN "juncturePublicKey" ELSE "junctureSecretKey"
KeysOf(c) ==
    IF c \in Frontends THEN PublicKeys
    ELSE IF c \in OneOfEach THEN SecretKeys
    ELSE OtherSecretKeys

\* The object literal { junctureApiUrl: url, <keyField>: key }; a field the
\* caller leaves out is absent.
ConfigObject(url, keyField, key) ==
    [k \in (IF url = Undefined THEN {} ELSE {"junctureApiUrl"})
           \cup (IF key = Undefined THEN {} ELSE {keyField})
       |-> IF k = "junctureApiUrl" THEN url ELSE key]

\* axios.create({ baseURL, headers }): an instance with its own defaults.
AxiosCreate(baseURL, headers) == [baseURL |-> baseURL, headers |-> Obj(headers)]

\* What a constructor ends with: the error it threw, or the transport of the
\* new instance.
Built(httpClient) ==
    [thrown |-> FALSE, error |-> NewError(Undefined), httpClient |-> httpClient]
Failed(error) ==
    [thrown |-> TRUE, error |-> error, httpClient |-> NoFields]

\* JunctureFrontend's constructor setting the key header whatever the key is.
JunctureFrontendAlwaysKey(config) ==
    IF ~Truthy(Get(Obj(config), "junctureApiUrl"))
    THEN Failed(NewError(Str("junctureApiUrl is required")))
    ELSE Built(AxiosCreate(Get(Obj(config), "junctureApiUrl"),
                           ("Content-Type" :> Str("application/json"))
                           @@ ("X-Juncture-Public-Key" :>
                                  Get(Obj(config), "juncturePublicKey"))))

\* new JunctureFrontend({ config }), config being the fields of options.config
JunctureFrontend(config) ==
    IF ~Truthy(Get(Obj(config), "junctureApiUrl"))
    THEN Failed(NewError(Str("junctureApiUrl is required")))
    ELSE LET created == AxiosCreate(Get(Obj(config), "junctureApiUrl"),
                                    "Content-Type" :> Str("application/json"))
             publicKey == Get(Obj(config), "juncturePublicKey")
         IN  IF Truthy(publicKey)
             THEN Built([created EXCEPT !.headers =
                     Obj(WithField(created.headers[2], "X-Juncture-Public-Key",
                                   publicKey))])
             ELSE Built(created)

\* JunctureBackend's constructor without the check of junctureSecretKey.
JunctureBackendWithoutKeyCheck(config) ==
    IF ~Truthy(Get(Obj(config), "junctureApiUrl"))
    THEN Failed(NewError(Str("junctureApiUrl is required")))
    ELSE Built(AxiosCreate(Get(Obj(config), "junctureApiUrl"),
                           ("Content-Type" :> Str("application/json"))
                           @@ ("X-Juncture-Secret-Key" :>
                                  Get(Obj(config), "junctureSecretKey"))))

\* new JunctureBackend({ config })
JunctureBackend(config) ==
    IF ~Truthy(Get(Obj(config), "junctureApiUrl"))
    THEN Failed(NewError(Str("junctureApiUrl is required")))
    ELSE IF ~Truthy(Get(Obj(config), "junctureSecretKey"))
    THEN Failed(NewError(Str("junctureSecretKey is required")))
    ELSE Built(AxiosCreate(Get(Obj(config), "junctureApiUrl"),
                           ("Content-Type" :> Str("application/json"))
                           @@ ("X-Juncture-Secret-Key" :>
                                  Get(Obj(config), "junctureSecretKey"))))

Construct(c, config) ==
    IF c \in Frontends THEN JunctureFrontend(config) ELSE JunctureBackend(config)

\* getConfig() answering this.config itself.
getConfigWithoutCopy(c, at) ==
    [addr |-> ConfigAddr(c), fields |-> heap[ConfigAddr(c)]]

\* getConfig(): { ...this.config }, a new object with the fields of the
\* object this.config refers to.  Answers the address the result is stored at
\* and its fields; `at` is a free address.
getConfig(c, at) == [addr |-> at, fields |-> heap[ConfigAddr(c)]]

\* getHttpClient(): the transport itself, not a copy.
getHttpClient(c) == Ref(HttpAddr(c))

-----------------------------------------------------------------------------
(* The transport.  A request is what the client hands to axios; a settled  *)
(* request is either fulfilled with a response or rejected with an error.  *)

\* The fields that reach the wire: axios leaves out those that are undefined.
Wire(fields) == [k \in {x \in DOMAIN fields : fields[x] # Undefined} |-> fields[k]]

\* httpClient.get(url, { params }) / .delete(url, { params })
HttpGet(url, params) ==
    [method |-> "GET", url |-> url, params |-> Wire(params), data |-> NoFields]
HttpDelete(url, params) ==
    [method |-> "DELETE", url |-> url, params |-> Wire(params), data |-> NoFields]
\* httpClient.post(url, data) / .put(url, data)
HttpPost(url, data) ==
    [method |-> "POST", url |-> url, params |-> NoFields, data |-> Wire(data)]
HttpPut(url, data) ==
    [method |-> "PUT", url |-> url, params |-> NoFields, data |-> Wire(data)]

Fulfilled(response) ==
    [ok |-> TRUE, response |-> response, error |-> NewError(Undefined)]
Rejected(error) ==
    [ok |-> FALSE, response |-> Undefined, error |-> error]

\* new Date(v)
NewDate(v) ==
    <<"date", CASE TypeOf(v) = "string" -> v[2]
                [] TypeOf(v) = "null" -> "1970-01-01T00:00:00.000Z"
                [] OTHER -> "Invalid Date">>

\* response.data of a settled request (undefined when it was rejected).
Data(settled) == Get(settled.response, "data")

\* The body of a backend method: try { await the request; return a record
\* shaped from response.data } catch (error) { throw this.handleError(error,
\* defaultMessage) }.  Reading a field of a response.data that is undefined or
\* null raises a TypeError inside the try; firstField is the field read first,
\* shaped the record built from response.data.
Attempt(settled, firstField, shaped, defaultMessage) ==
    IF ~settled.ok
    THEN Throw(handleError(settled.error, defaultMessage))
    ELSE IF IsNullish(Data(settled))
    THEN Throw(handleError(TypeErrorOn(Data(settled), firstField), defaultMessage))
    ELSE Return(shaped)

-----------------------------------------------------------------------------
(* JunctureBackend: general methods.  <method>Request is the request the   *)
(* method sends, <method> what it ends with once the request has settled.  *)

checkConnectionValidityRequest(request) ==
    HttpGet("/check-connection-validity",
            [external_id |-> Get(request, "externalId"),
             provider |-> Get(request, "provider")])

\* checkConnectionValidity building the Date whether or not expires_at is there.
checkConnectionValidityAlwaysDate(request, settled) ==
    LET data == Data(settled)
    IN  Attempt(settled, "exists",
                Obj([exists |-> Get(data, "exists"),
                     isInvalid |-> Get(data, "is_invalid"),
                     expiresAt |-> NewDate(Get(data, "expires_at"))]),
                "Failed to check connection validity")

checkConnectionValidity(request, settled) ==
    LET data == Data(settled)
    IN  Attempt(settled, "exists",
                Obj([exists |-> Get(data, "exists"),
                     isInvalid |-> Get(data, "is_invalid"),
                     expiresAt |-> IF Truthy(Get(data, "expires_at"))
                                   THEN NewDate(Get(data, "expires_at"))
                                   ELSE Undefined]),
                "Failed to check connection validity")

getConnectionCredentialsRequest(request) ==
    HttpGet("/get-connection-credentials",
            [external_id |-> Get(request, "externalId"),
             provider |-> Get(request, "provider")])

getConnectionCredentials(request, settled) ==
    LET data == Data(settled)
    IN  Attempt(settled, "refresh_token",
                Obj([refreshToken |-> Get(data, "refresh_token"),
                     expiresAt |-> NewDate(Get(data, "expires_at")),
                     isInvalid |-> Get(data, "is_invalid")]),
                "Failed to get connection credentials")

getAccessTokenRequest(request) ==
    HttpGet("/get-access-token",
            [external_id |-> Get(request, "externalId"),
             provider |-> Get(request, "provider")])

\* The catch block of getAccessToken with the 403 case left to handleError.
getAccessTokenCatchAllGeneric(error) ==
    Throw(handleError(error, "Failed to get access token"))

\* The catch block of getAccessToken.
getAccessTokenCatch(error) ==
    IF error.isAxiosError /\ OptGet(error.response, "status") = Num(403)
    THEN LET errorData == Get(error.response, "data")
         IN  IF IsNullish(errorData)
             THEN Throw(TypeErrorOn(errorData, "needs_reauthorization"))
             ELSE IF Truthy(Get(errorData, "needs_reauthorization"))
             THEN Throw(NewError(Str("Reauthorization required: "
                                     \o ToStr(Get(errorData, "error")))))
             ELSE Throw(handleError(error, "Failed to get access token"))
    ELSE Throw(handleError(error, "Failed to get access token"))

getAccessToken(request, settled) ==
    IF ~settled.ok
    THEN getAccessTokenCatch(settled.error)
    ELSE LET data == Data(settled)
         IN  IF IsNullish(data)
             THEN getAccessTokenCatch(TypeErrorOn(data, "access_token"))
             ELSE Return(Obj([accessToken |-> Get(data, "access_token"),
                              expiresAt |-> NewDate(Get(data, "expires_at"))]))

-----------------------------------------------------------------------------
(* JunctureBackend: Jira methods.                                          *)

\* The record of a paginated list method without its defaults.
PageWithoutDefaults(data, items) ==
    Obj((items :> Get(data, items))
        @@ [total |-> Get(data, "total"),
            startAt |-> Get(data, "startAt"),
            maxResults |-> Get(data, "maxResults")])

\* The record of a paginated list method; items is the name of its list.
Page(data, items) ==
    Obj((items :> Or(Get(data, items), Arr(<<>>)))
        @@ [total |-> Or(Get(data, "total"), Num(0)),
            startAt |-> Or(Get(data, "startAt"), Num(0)),
            maxResults |-> Or(Get(data, "maxResults"), Num(50))])

getJiraProjectsRequest == HttpGet("/get-all-projects", NoFields)

getJiraProjects(settled) ==
    LET data == Data(settled)
    IN  Attempt(settled, "projects",
                Obj([projects |-> Or(Get(data, "projects"), Arr(<<>>))]),
                "Failed to get Jira projects")

selectJiraProjectRequest(request) ==
    HttpPost("/select-project", [project_id |-> Get(request, "projectId")])

\* selectJiraProject handing on the success flag as the remote sent it.
selectJiraProjectWithoutDefault(request, settled) ==
    LET data == Data(settled)
    IN  Attempt(settled, "success",
                Obj([success |-> Get(data, "success")]),
                "Failed to select Jira project")

selectJiraProject(request, settled) ==
    LET data == Data(settled)
    IN  Attempt(settled, "success",
                Obj([success |-> Or(Get(data, "success"), Bool(TRUE))]),
                "Failed to select Jira project")

getSelectedJiraProjectIdRequest == HttpGet("/get-selected-project-id", NoFields)

\* getSelectedJiraProjectId reading projectId where the remote sends project_id.
getSelectedJiraProjectIdUnmapped(settled) ==
    LET data == Data(settled)
    IN  Attempt(settled, "project_id",
                Obj([projectId |-> Get(data, "projectId")]),
                "Failed to get selected Jira project ID")

getSelectedJiraProjectId(settled) ==
    LET data == Data(settled)
    IN  Attempt(settled, "project_id",
                Obj([projectId |-> Get(data, "project_id")]),
                "Failed to get selected Jira project ID")

getJiraTicketsRequest(request) ==
    HttpGet("/get-tickets-for-project",
            [maxResults |-> OptGet(request, "maxResults"),
             startAt |-> OptGet(request, "startAt")])

getJiraTickets(request, settled) ==
    LET data == Data(settled)
    IN  Attempt(settled, "tickets",
                Page(data, "tickets"),
                "Failed to get Jira tickets")

\* getJiraTicketsForSprint sending sprintId under the name the caller gave it.
getJiraTicketsForSprintRequestUnrenamed(request) ==
    HttpGet("/get-tickets-for-sprint",
            [sprintId |-> Get(request, "sprintId"),
             maxResults |-> Get(request, "maxResults"),
             startAt |-> Get(request, "startAt")])

getJiraTicketsForSprintRequest(request) ==
    HttpGet("/get-tickets-for-sprint",
            [sprint_id |-> Get(request, "sprintId"),
             maxResults |-> Get(request, "maxResults"),
             startAt |-> Get(request, "startAt")])

getJiraTicketsForSprint(request, settled) ==
    LET data == Data(settled)
    IN  Attempt(settled, "tickets",
                Page(data, "tickets"),
                "Failed to get Jira tickets for sprint")

getJiraIssueRequest(request) ==
    HttpGet("/get-issue-details", [issue_key |-> Get(request, "issueKey")])

getJiraIssue(request, settled) ==
    LET data == Data(settled)
    IN  Attempt(settled, "issue",
                Obj([issue |-> Get(data, "issue")]),
                "Failed to get Jira issue")

createJiraTicketRequest(request) ==
    HttpPost("/create-ticket",
             [project_key |-> Get(request, "projectKey"),
              issue_type |-> Get(request, "issueType"),
              summary |-> Get(request, "summary"),
              description |-> Get(request, "description"),
              priority |-> Get(request, "priority"),
              assignee |-> Get(request, "assignee"),
              fields |-> Get(request, "fields")])

\* createJiraTicket reading the ticket's id from ticket_key.
createJiraTicketKeyAsId(request, settled) ==
    LET data == Data(settled)
    IN  Attempt(settled, "success",
                Obj([success |-> Or(Get(data, "success"), Bool(TRUE)),
                     ticketKey |-> Get(data, "ticket_key"),
                     ticketId |-> Get(data, "ticket_key")]),
                "Failed to create Jira ticket")

createJiraTicket(request, settled) ==
    LET data == Data(settled)
    IN  Attempt(settled, "success",
                Obj([success |-> Or(Get(data, "success"), Bool(TRUE)),
                     ticketKey |-> Get(data, "ticket_key"),
                     ticketId |-> Get(data, "ticket_id")]),
                "Failed to create Jira ticket")

editJiraIssueRequest(request) ==
    HttpPut("/edit-issue",
            [issue_key |-> Get(request, "issueKey"),
             fields |-> Get(request, "fields")])

\* editJiraIssue handing on the success flag as the remote sent it.
editJiraIssueWithoutDefault(request, settled) ==
    LET data == Data(settled)
    IN  Attempt(settled, "success",
                Obj([success |-> Get(data, "success")]),
                "Failed to edit Jira issue")

editJiraIssue(request, settled) ==
    LET data == Data(settled)
    IN  Attempt(settled, "success",
                Obj([success |-> Or(Get(data, "success"), Bool(TRUE))]),
                "Failed to edit Jira issue")

deleteJiraIssueRequest(request) ==
    HttpDelete("/delete-issue", [issue_key |-> Get(request, "issueKey")])

deleteJiraIssue(request, settled) ==
    LET data == Data(settled)
    IN  Attempt(settled, "success",
                Obj([success |-> Or(Get(data, "success"), Bool(TRUE))]),
                "Failed to delete Jira issue")

getJiraSprintsRequest(request) ==
    HttpGet("/get-all-sprints-for-project",
            [maxResults |-> OptGet(request, "maxResults"),
             startAt |-> OptGet(request, "startAt")])

getJiraSprints(request, settled) ==
    LET data == Data(settled)
    IN  Attempt(settled, "sprints",
                Page(data, "sprints"),
                "Failed to get Jira sprints")

getActiveJiraSprintsRequest == HttpGet("/get-active-sprints-for-project", NoFields)

getActiveJiraSprints(settled) ==
    LET data == Data(settled)
    IN  Attempt(settled, "sprints",
                Obj([sprints |-> Or(Get(data, "sprints"), Arr(<<>>))]),
                "Failed to get active Jira sprints")

getJiraBoardsRequest(request) ==
    HttpGet("/get-boards-for-project",
            [maxResults |-> OptGet(request, "maxResults"),
             startAt |-> OptGet(request, "startAt")])

getJiraBoards(request, settled) ==
    LET data == Data(settled)
    IN  Attempt(settled, "boards",
                Page(data, "boards"),
                "Failed to get Jira boards")

-----------------------------------------------------------------------------
(* JunctureFrontend: OAuth flow methods.  A method that may navigate ends  *)
(* with an outcome and the values it assigned to window.location.href.     *)

getOAuthAuthorizationUrlRequest(request) ==
    HttpPost("/initiate-oauth-flow",
             [provider |-> Get(request, "provider"),
              external_id |-> Get(request, "externalId")])

getOAuthAuthorizationUrl(request, settled) ==
    IF settled.ok
    THEN Return(Get(settled.response, "data"))
    ELSE Throw(frontendHandleError(settled.error,
                                   "Failed to get OAuth authorization URL"))

\* A parameter declared `framework = 'nextjs'`.
FrameworkParam(framework) ==
    IF framework = Undefined THEN Str("nextjs") ELSE framework

NoNavigation(outcome) == [outcome |-> outcome, navigated |-> <<>>]

\* A case of the switch that does nothing where there is no window.
RedirectCaseSilent(authResponse, win) ==
    IF win /\ ~IsNullish(authResponse)
    THEN [outcome |-> Return(Undefined),
          navigated |-> <<Get(authResponse, "authorizationUri")>>]
    ELSE NoNavigation(Return(Undefined))

\* One case of the switch of redirectToOAuth, the throw caught by its catch.
RedirectCase(authResponse, win) ==
    IF win
    THEN IF IsNullish(authResponse)
         THEN NoNavigation(Throw(frontendHandleError(
                  TypeErrorOn(authResponse, "authorizationUri"),
                  "Failed to redirect to OAuth")))
         ELSE [outcome |-> Return(Undefined),
               navigated |-> <<Get(authResponse, "authorizationUri")>>]
    ELSE NoNavigation(Throw(frontendHandleError(
             NewError(Str("window is not available in server-side environment")),
             "Failed to redirect to OAuth")))

\* redirectToOAuth with no case for 'vanilla' in its switch.
redirectToOAuthWithoutVanilla(request, framework, settled, win) ==
    LET authResponse == getOAuthAuthorizationUrl(request, settled)
        fw == FrameworkParam(framework)
    IN  IF authResponse.kind = "throw"
        THEN NoNavigation(Throw(frontendHandleError(authResponse.error,
                                                    "Failed to redirect to OAuth")))
        ELSE CASE fw = Str("nextjs") -> RedirectCase(authResponse.value, win)
               [] fw = Str("react") -> RedirectCase(authResponse.value, win)
               [] fw \in {Str("vue"), Str("angular")} ->
                      RedirectCase(authResponse.value, win)
               [] OTHER ->
                      NoNavigation(Throw(frontendHandleError(
                          NewError(Str("Unsupported framework: " \o ToStr(fw))),
                          "Failed to redirect to OAuth")))

\* redirectToOAuth assigning window.location.href before it looks at how the
\* request ended.
redirectToOAuthNavigatingFirst(request, framework, settled, win) ==
    LET authResponse == getOAuthAuthorizationUrl(request, settled)
    IN  IF authResponse.kind = "throw"
        THEN [outcome |-> Throw(frontendHandleError(authResponse.error,
                                                    "Failed to redirect to OAuth")),
              navigated |-> <<OptGet(authResponse.value, "authorizationUri")>>]
        ELSE RedirectCase(authResponse.value, win)

redirectToOAuth(request, framework, settled, win) ==
    LET authResponse == getOAuthAuthorizationUrl(request, settled)
        fw == FrameworkParam(framework)
    IN  IF authResponse.kind = "throw"
        THEN NoNavigation(Throw(frontendHandleError(authResponse.error,
                                                    "Failed to redirect to OAuth")))
        ELSE CASE fw = Str("nextjs") -> RedirectCase(authResponse.value, win)
               [] fw = Str("react") -> RedirectCase(authResponse.value, win)
               [] fw \in {Str("vue"), Str("angular"), Str("vanilla")} ->
                      RedirectCase(authResponse.value, win)
               [] OTHER ->
                      NoNavigation(Throw(frontendHandleError(
                          NewError(Str("Unsupported framework: " \o ToStr(fw))),
                          "Failed to redirect to OAuth")))

\* The request object the two aliases build: { provider, externalId }.
AliasRequest(provider, externalId) ==
    Obj([provider |-> provider, externalId |-> externalId])

reauthorizeConnectionRequest(provider, externalId) ==
    getOAuthAuthorizationUrlRequest(AliasRequest(provider, externalId))

\* reauthorizeConnection not passing its framework argument on.
reauthorizeConnectionDefaultFramework(provider, externalId, framework, settled, win) ==
    redirectToOAuth(AliasRequest(provider, externalId), Undefined, settled, win)

reauthorizeConnection(provider, externalId, framework, settled, win) ==
    redirectToOAuth(AliasRequest(provider, externalId),
                    FrameworkParam(framework), settled, win)

completeIntegrationRequest(provider, externalId) ==
    getOAuthAuthorizationUrlRequest(AliasRequest(provider, externalId))

completeIntegration(provider, externalId, framework, settled, win) ==
    redirectToOAuth(AliasRequest(provider, externalId),
                    FrameworkParam(framework), settled, win)

-----------------------------------------------------------------------------
(* What the caller passes and what the remote answers.                     *)

ExternalId == "project-123"
AuthorizationUri == "https://auth.example.com/authorize"
RemoteError == "Token expired"
RemoteDetails == "refresh failed"
Timestamp == "2026-01-01T00:00:00.000Z"

SupportedFramework == {"nextjs", "react", "vue", "angular", "vanilla"}
\* The framework arguments: the supported ones, none, and one that is not
\* supported.
Frameworks == {Str(f) : f \in SupportedFramework} \cup {Undefined, Str("svelte")}

FrontendOps ==
    {"getOAuthAuthorizationUrl", "redirectToOAuth", "reauthorizeConnection",
     "completeIntegration"}
RedirectOps == {"redirectToOAuth", "reauthorizeConnection", "completeIntegration"}
GeneralOps == {"checkConnectionValidity", "getConnectionCredentials", "getAccessToken"}
JiraOps ==
    {"getProjects", "selectProject", "getSelectedProjectId", "getTickets",
     "getTicketsForSprint", "getIssue", "createTicket", "editIssue",
     "deleteIssue", "getSprints", "getActiveSprints", "getBoards"}
RemoteOps == FrontendOps \cup GeneralOps \cup JiraOps
Accessors == {"getConfig", "getHttpClient"}

ConnectionRequest == Obj([provider |-> Str("jira"), externalId |-> Str(ExternalId)])
PageRequests ==
    {Undefined, Obj(NoFields), Obj([maxResults |-> Num(10)]),
     Obj([maxResults |-> Num(10), startAt |-> Num(5)])}

\* The arguments of a call: the fields an operation does not take are undefined.
Args(request, provider, externalId, framework) ==
    [request |-> request, provider |-> provider, externalId |-> externalId,
     framework |-> framework]
NoArgs == Args(Undefined, Undefined, Undefined, Undefined)
OfRequest(request) == Args(request, Undefined, Undefined, Undefined)

\* The message axios gives an error response.
StatusMessage(status) == Str("Request failed with status code " \o ToString(status))

\* The payloads of a failed response.
ErrorPayloads ==
    {Null, Str(""),
     Obj([error |-> Str(RemoteError)]),
     Obj([error |-> Str(RemoteError), details |-> Str(RemoteDetails)]),
     Obj([details |-> Str(RemoteDetails)])}
ReauthorizationPayloads ==
    {Undefined,
     Obj(NoFields),
     Obj([needs_reauthorization |-> Bool(TRUE), error |-> Str(RemoteError)]),
     Obj([needs_reauthorization |-> Bool(TRUE), error |-> Str(RemoteError),
          details |-> Str(RemoteDetails)]),
     Obj([needs_reauthorization |-> Bool(FALSE), error |-> Str(RemoteError)]),
     Obj([needs_reauthorization |-> Bool(TRUE)])}

\* The ways a request fails: an error response, no response at all, and an
\* error that is not the transport's (a request interceptor that throws).
Failures(op) ==
    {AxiosError(StatusMessage(st), Response(st, d)) :
        st \in {403, 500},
        d \in IF op = "getAccessToken"
              THEN ErrorPayloads \cup ReauthorizationPayloads
              ELSE ErrorPayloads}
    \cup {AxiosError(Str("Network Error"), Undefined),
          NewError(Str("interceptor failed"))}

Ticket == Obj([key |-> Str("PROJ-42")])

\* The payloads of a successful response, per operation: complete, partial and
\* absent (a body of `null`).
Payloads(op) ==
    {Null} \cup
    CASE op \in FrontendOps ->
            {Obj([authorizationUri |-> Str(AuthorizationUri)]),
                Obj([authorization_uri |-> Str(AuthorizationUri)])}
      [] op = "checkConnectionValidity" ->
            {Obj([exists |-> Bool(TRUE), is_invalid |-> Bool(FALSE)]),
                Obj([exists |-> Bool(TRUE), is_invalid |-> Bool(FALSE),
                  expires_at |-> Str(Timestamp)]),
                Obj([exists |-> Bool(FALSE), is_invalid |-> Bool(TRUE),
                  expires_at |-> Null])}
      [] op = "getConnectionCredentials" ->
            {Obj([refresh_token |-> Str("refresh-1"), expires_at |-> Str(Timestamp),
                  is_invalid |-> Bool(FALSE)])}
      [] op = "getAccessToken" ->
            {Obj([access_token |-> Str("access-1"), expires_at |-> Str(Timestamp)])}
      [] op \in {"getProjects"} ->
            {Obj(NoFields), Obj([projects |-> Arr(<<Ticket>>)])}
      [] op \in {"selectProject", "editIssue", "deleteIssue"} ->
            {Obj(NoFields), Obj([success |-> Bool(TRUE)]), Obj([success |-> Bool(FALSE)])}
      [] op = "getSelectedProjectId" ->
            {Obj([project_id |-> Str("10")]), Obj([project_id |-> Str("11")])}
      [] op \in {"getTickets", "getTicketsForSprint"} ->
            {Obj(NoFields),
                Obj([tickets |-> Arr(<<Ticket>>)]),
                Obj([total |-> Num(7), maxResults |-> Num(10)]),
                Obj([tickets |-> Arr(<<Ticket>>), total |-> Num(7), startAt |-> Num(5),
                  maxResults |-> Num(10)]),
                Obj([tickets |-> Arr(<<>>), total |-> Num(0), startAt |-> Num(0),
                  maxResults |-> Num(0)])}
      [] op = "getIssue" ->
            {Obj([issue |-> Ticket])}
      [] op = "createTicket" ->
            {Obj(NoFields),
                Obj([success |-> Bool(TRUE), ticket_key |-> Str("PROJ-42")]),
                Obj([success |-> Bool(TRUE), ticket_key |-> Str("PROJ-42"),
                  ticket_id |-> Str("10042")]),
                Obj([ticket_id |-> Str("10042")]),
                Obj([success |-> Bool(FALSE)])}
      [] op \in {"getSprints", "getActiveSprints"} ->
            {Obj(NoFields),
                Obj([sprints |-> Arr(<<Ticket>>), total |-> Num(7), startAt |-> Num(5),
                  maxResults |-> Num(10)])}
      [] op = "getBoards" ->
            {Obj(NoFields),
                Obj([boards |-> Arr(<<Ticket>>), total |-> Num(7), startAt |-> Num(5),
                  maxResults |-> Num(10)])}

\* Everything the request of an operation can settle with.
Settlements(op) ==
    {Fulfilled(Response(200, d)) : d \in Payloads(op)}
    \cup {Rejected(e) : e \in Failures(op)}

-----------------------------------------------------------------------------
(* The state machine.                                                      *)

\* The number of writes the caller makes to the objects it holds.
MaxWrites == 1

\* The calls the caller has in progress at a time.
CallSlots == {1}

\* The request an operation sends, as the public name binds it.
RequestOf(op, args) ==
    CASE op = "getOAuthAuthorizationUrl" -> getOAuthAuthorizationUrlRequest(args.request)
      [] op = "redirectToOAuth" -> getOAuthAuthorizationUrlRequest(args.request)
      [] op = "reauthorizeConnection" ->
            reauthorizeConnectionRequest(args.provider, args.externalId)
      [] op = "completeIntegration" ->
            completeIntegrationRequest(args.provider, args.externalId)
      [] op = "checkConnectionValidity" -> checkConnectionValidityRequest(args.request)
      [] op = "getConnectionCredentials" -> getConnectionCredentialsRequest(args.request)
      [] op = "getAccessToken" -> getAccessTokenRequest(args.request)
      [] op = "getProjects" -> getJiraProjectsRequest
      [] op = "selectProject" -> selectJiraProjectRequest(args.request)
      [] op = "getSelectedProjectId" -> getSelectedJiraProjectIdRequest
      [] op = "getTickets" -> getJiraTicketsRequest(args.request)
      [] op = "getTicketsForSprint" -> getJiraTicketsForSprintRequest(args.request)
      [] op = "getIssue" -> getJiraIssueRequest(args.request)
      [] op = "createTicket" -> createJiraTicketRequest(args.request)
      [] op = "editIssue" -> editJiraIssueRequest(args.request)
      [] op = "deleteIssue" -> deleteJiraIssueRequest(args.request)
      [] op = "getSprints" -> getJiraSprintsRequest(args.request)
      [] op = "getActiveSprints" -> getActiveJiraSprintsRequest
      [] op = "getBoards" -> getJiraBoardsRequest(args.request)

\* An operation that repeats its request.
RequestsRepeated(op, args) == <<RequestOf(op, args), RequestOf(op, args)>>

\* The requests an operation hands to its transport, in order: every method
\* makes one httpClient call, in its try block, and none in its catch block.
Requests(op, args) == <<RequestOf(op, args)>>

\* What an operation ends with once its request has settled.
Complete(op, args, settled, win) ==
    CASE op = "getOAuthAuthorizationUrl" ->
            NoNavigation(getOAuthAuthorizationUrl(args.request, settled))
      [] op = "redirectToOAuth" ->
            redirectToOAuth(args.request, args.framework, settled, win)
      [] op = "reauthorizeConnection" ->
            reauthorizeConnection(args.provider, args.externalId, args.framework,
                                  settled, win)
      [] op = "completeIntegration" ->
            completeIntegration(args.provider, args.externalId, args.framework,
                                settled, win)
      [] op = "checkConnectionValidity" ->
            NoNavigation(checkConnectionValidity(args.request, settled))
      [] op = "getConnectionCredentials" ->
            NoNavigation(getConnectionCredentials(args.request, settled))
      [] op = "getAccessToken" -> NoNavigation(getAccessToken(args.request, settled))
      [] op = "getProjects" -> NoNavigation(getJiraProjects(settled))
      [] op = "selectProject" -> NoNavigation(selectJiraProject(args.request, settled))
      [] op = "getSelectedProjectId" -> NoNavigation(getSelectedJiraProjectId(settled))
      [] op = "getTickets" -> NoNavigation(getJiraTickets(args.request, settled))
      [] op = "getTicketsForSprint" ->
            NoNavigation(getJiraTicketsForSprint(args.request, settled))
      [] op = "getIssue" -> NoNavigation(getJiraIssue(args.request, settled))
      [] op = "createTicket" -> NoNavigation(createJiraTicket(args.request, settled))
      [] op = "editIssue" -> NoNavigation(editJiraIssue(args.request, settled))
      [] op = "deleteIssue" -> NoNavigation(deleteJiraIssue(args.request, settled))
      [] op = "getSprints" -> NoNavigation(getJiraSprints(args.request, settled))
      [] op = "getActiveSprints" -> NoNavigation(getActiveJiraSprints(settled))
      [] op = "getBoards" -> NoNavigation(getJiraBoards(args.request, settled))

\* supplied: the fields of the config object when the constructor ran;
\* rewritten: the caller has since written to that object.
NoClient ==
    [state |-> "none", supplied |-> NoFields, rewritten |-> FALSE,
     error |-> NewError(Undefined)]

\* after: the calls that had ended, and whose results the caller held, when this
\* call was made.
NoRequest == [method |-> "", url |-> "", params |-> NoFields, data |-> NoFields]

Idle ==
    [pc |-> "idle", client |-> "", op |-> "", args |-> NoArgs,
     request |-> NoRequest, headers |-> Undefined, sent |-> 0,
     settled |-> Rejected(NewError(Undefined)),
     outcome |-> Return(Undefined), navigated |-> <<>>, written |-> FALSE,
     after |-> {}]

Init ==
    /\ heap = [a \in {} |-> NoFields]
    /\ clients = [c \in OneOfEach |-> NoClient]
    /\ calls = [k \in CallSlots |-> Idle]
    /\ window \in BOOLEAN
    /\ writes = 0
    /\ normIn = <<>>
    /\ normOut = <<>>

\* heap without the object at addr
Free(h, addr) == [a \in DOMAIN h \ {addr} |-> h[a]]

\* A constructor that sets the headers of the new instance on the transport of
\* every instance there is.
NewClientSettingSharedDefaults(c) ==
    /\ clients[c].state = "none"
    /\ \E url \in ApiUrls, key \in KeysOf(c) :
          LET config == ConfigObject(url, KeyField(c), key)
              built == Construct(c, config)
          IN  IF built.thrown
              THEN /\ clients' = [clients EXCEPT ![c] =
                          [state |-> "failed", supplied |-> config,
                           rewritten |-> FALSE, error |-> built.error]]
                   /\ UNCHANGED heap
              ELSE /\ clients' = [clients EXCEPT ![c] =
                          [state |-> "constructed", supplied |-> config,
                           rewritten |-> FALSE, error |-> built.error]]
                   /\ heap' = [a \in DOMAIN heap \cup {ConfigAddr(c), HttpAddr(c)} |->
                                 IF a = ConfigAddr(c) THEN config
                                 ELSE IF a = HttpAddr(c) THEN built.httpClient
                                 ELSE IF a[1] = "httpClient"
                                 THEN [heap[a] EXCEPT !.headers = built.httpClient.headers]
                                 ELSE heap[a]]
    /\ UNCHANGED <<calls, window, writes, normIn, normOut>>

\* new JunctureFrontend / new JunctureBackend: the caller builds a config
\* object and constructs the client with it.  The instance keeps a reference
\* to that object (this.config = options.config).
NewClient(c) ==
    /\ clients[c].state = "none"
    /\ \E url \in ApiUrls, key \in KeysOf(c) :
          LET config == ConfigObject(url, KeyField(c), key)
              built == Construct(c, config)
          IN  IF built.thrown
              THEN /\ clients' = [clients EXCEPT ![c] =
                          [state |-> "failed", supplied |-> config,
                           rewritten |-> FALSE, error |-> built.error]]
                   /\ UNCHANGED heap
              ELSE /\ clients' = [clients EXCEPT ![c] =
                          [state |-> "constructed", supplied |-> config,
                           rewritten |-> FALSE, error |-> built.error]]
                   /\ heap' = (ConfigAddr(c) :> config)
                              @@ (HttpAddr(c) :> built.httpClient) @@ heap
    /\ UNCHANGED <<calls, window, writes, normIn, normOut>>

\* An operation that sets a default header of its transport before it sends.
StartSettingHeader(k, c, op, args) ==
    /\ calls[k].pc = "idle"
    /\ clients[c].state = "constructed"
    /\ heap' = [heap EXCEPT ![HttpAddr(c)].headers =
                    Obj(WithField(@[2], "X-Juncture-Operation", Str(op)))]
    /\ calls' = [calls EXCEPT ![k] =
            [Idle EXCEPT !.pc = "awaiting", !.client = c, !.op = op,
                         !.args = args, !.request = Requests(op, args)[1],
                         !.headers = heap'[HttpAddr(c)].headers,
                         !.sent = Len(Requests(op, args)),
                         !.after = {j \in DOMAIN calls : calls[j].pc = "done"}]]
    /\ UNCHANGED <<clients, window, writes, normIn, normOut>>

\* The synchronous part of a remote-calling operation: the request is built
\* and handed to the transport of the instance, which adds its default headers.
Start(k, c, op, args) ==
    /\ calls[k].pc = "idle"
    /\ clients[c].state = "constructed"
    /\ calls' = [calls EXCEPT ![k] =
            [Idle EXCEPT !.pc = "awaiting", !.client = c, !.op = op,
                         !.args = args, !.request = Requests(op, args)[1],
                         !.headers = heap[HttpAddr(c)].headers,
                         !.sent = Len(Requests(op, args)),
                         !.after = {j \in DOMAIN calls : calls[j].pc = "done"}]]
    /\ UNCHANGED <<heap, clients, window, writes, normIn, normOut>>

InvokeGetOAuthAuthorizationUrl(k) ==
    \E c \in Frontends : Start(k, c, "getOAuthAuthorizationUrl", OfRequest(ConnectionRequest))

InvokeRedirectToOAuth(k) ==
    \E c \in Frontends, f \in Frameworks :
        Start(k, c, "redirectToOAuth", Args(ConnectionRequest, Undefined, Undefined, f))

InvokeReauthorizeConnection(k) ==
    \E c \in Frontends, f \in Frameworks :
        Start(k, c, "reauthorizeConnection",
              Args(Undefined, Str("jira"), Str(ExternalId), f))

InvokeCompleteIntegration(k) ==
    \E c \in Frontends, f \in Frameworks :
        Start(k, c, "completeIntegration",
              Args(Undefined, Str("jira"), Str(ExternalId), f))

InvokeGeneral(k) ==
    \E c \in Backends \cap DOMAIN clients, op \in GeneralOps : Start(k, c, op, OfRequest(ConnectionRequest))

InvokeJira(k) ==
    \E c \in Backends \cap DOMAIN clients, op \in JiraOps :
        \E request \in
            CASE op \in {"getProjects", "getSelectedProjectId", "getActiveSprints"} ->
                    {Undefined}
              [] op \in {"getTickets", "getSprints", "getBoards"} -> PageRequests
              [] op = "selectProject" ->
                    {Obj([projectId |-> Str("10")]), Obj([projectId |-> Str("11")])}
              [] op = "getTicketsForSprint" ->
                    {Obj([sprintId |-> Str("7")]),
                     Obj([sprintId |-> Str("7"), maxResults |-> Num(10),
                          startAt |-> Num(5)])}
              [] op \in {"getIssue", "deleteIssue"} -> {Obj([issueKey |-> Str("PROJ-42")])}
              [] op = "createTicket" ->
                    {Obj([projectKey |-> Str("PROJ"), issueType |-> Str("Bug"),
                          summary |-> Str("Critical bug found")]),
                     Obj([projectKey |-> Str("PROJ"), issueType |-> Str("Bug"),
                          summary |-> Str("Critical bug found"),
                          description |-> Str("Steps to reproduce"),
                          priority |-> Str("High"),
                          assignee |-> Str("user-1"),
                          fields |-> Obj([labels |-> Arr(<<Str("bug")>>)])])}
              [] op = "editIssue" ->
                    {Obj([issueKey |-> Str("PROJ-42"),
                          fields |-> Obj([summary |-> Str("Updated")])])} :
            Start(k, c, op, OfRequest(request))

\* A failure of the request of call k that fails every call in flight.
SettleFailingOthers(k) ==
    /\ calls[k].pc = "awaiting"
    /\ \E s \in Settlements(calls[k].op) :
          LET settled == IF s.ok THEN s
                         ELSE Rejected(OfRequestWith(s.error, calls[k].headers))
          IN  calls' = [j \in DOMAIN calls |->
                  IF j = k \/ (~s.ok /\ calls[j].pc = "awaiting")
                  THEN LET done == Complete(calls[j].op, calls[j].args, settled, window)
                       IN  [calls[j] EXCEPT !.pc = "done", !.settled = settled,
                                            !.outcome = done.outcome,
                                            !.navigated = done.navigated]
                  ELSE calls[j]]
    /\ UNCHANGED <<heap, clients, window, writes, normIn, normOut>>

\* The request of call k settles and the operation runs to its end.
Settle(k) ==
    /\ calls[k].pc = "awaiting"
    /\ \E s \in Settlements(calls[k].op) :
          LET settled == IF s.ok THEN s
                         ELSE Rejected(OfRequestWith(s.error, calls[k].headers))
              done == Complete(calls[k].op, calls[k].args, settled, window)
          IN  calls' = [calls EXCEPT ![k].pc = "done", ![k].settled = settled,
                                     ![k].outcome = done.outcome,
                                     ![k].navigated = done.navigated]
    /\ UNCHANGED <<heap, clients, window, writes, normIn, normOut>>

\* client.getConfig()
CallGetConfig(k) ==
    /\ calls[k].pc = "idle"
    /\ \E c \in DOMAIN clients :
          /\ clients[c].state = "constructed"
          /\ LET copy == getConfig(c, RetAddr(k))
             IN  /\ heap' = IF copy.addr \in DOMAIN heap
                            THEN heap
                            ELSE (copy.addr :> copy.fields) @@ heap
                 /\ calls' = [calls EXCEPT ![k] =
                        [Idle EXCEPT !.pc = "done", !.client = c, !.op = "getConfig",
                                     !.outcome = Return(Ref(copy.addr))]]
    /\ UNCHANGED <<clients, window, writes, normIn, normOut>>

\* client.getHttpClient()
CallGetHttpClient(k) ==
    /\ calls[k].pc = "idle"
    /\ \E c \in DOMAIN clients :
          /\ clients[c].state = "constructed"
          /\ calls' = [calls EXCEPT ![k] =
                 [Idle EXCEPT !.pc = "done", !.client = c, !.op = "getHttpClient",
                              !.outcome = Return(getHttpClient(c))]]
    /\ UNCHANGED <<heap, clients, window, writes, normIn, normOut>>

\* The values the caller writes into a configuration object.
Written == {Str("https://evil.example.com")}

\* The caller writes a field of the object a getConfig() call returned.
WriteReturned(k) ==
    /\ writes < MaxWrites
    /\ calls[k].pc = "done"
    /\ calls[k].op = "getConfig"
    /\ \E field \in {"junctureApiUrl", KeyField(calls[k].client)}, v \in Written :
          LET addr == calls[k].outcome.value[2]
          IN  heap' = [heap EXCEPT ![addr] = WithField(heap[addr], field, v)]
    /\ calls' = [calls EXCEPT ![k].written = TRUE]
    /\ writes' = writes + 1
    /\ UNCHANGED <<clients, window, normIn, normOut>>

\* The caller writes a field of the config object it constructed client c with.
WriteSupplied(c) ==
    /\ writes < MaxWrites
    /\ clients[c].state = "constructed"
    /\ \E field \in {"junctureApiUrl", KeyField(c)}, v \in Written :
          heap' = [heap EXCEPT ![ConfigAddr(c)] =
                      WithField(heap[ConfigAddr(c)], field, v)]
    /\ clients' = [clients EXCEPT ![c].rewritten = TRUE]
    /\ writes' = writes + 1
    /\ UNCHANGED <<calls, window, normIn, normOut>>

\* The caller has taken the result of call k and lets go of it.
Release(k) ==
    /\ calls[k].pc = "done"
    /\ calls' = [j \in DOMAIN calls |->
                    IF j = k THEN Idle
                    ELSE [calls[j] EXCEPT !.after = calls[j].after \ {k}]]
    /\ heap' = Free(heap, RetAddr(k))
    /\ UNCHANGED <<clients, window, writes, normIn, normOut>>

Next ==
    \/ \E c \in DOMAIN clients : NewClient(c)
    \/ \E k \in DOMAIN calls :
          \/ InvokeGetOAuthAuthorizationUrl(k)
          \/ InvokeRedirectToOAuth(k)
          \/ InvokeReauthorizeConnection(k)
          \/ InvokeCompleteIntegration(k)
          \/ InvokeGeneral(k)
          \/ InvokeJira(k)
          \/ Settle(k)
          \/ CallGetConfig(k)
          \/ CallGetHttpClient(k)
          \/ WriteReturned(k)
          \/ Release(k)
    \/ \E c \in DOMAIN clients : WriteSupplied(c)

Spec == Init /\ [][Next]_vars

-----------------------------------------------------------------------------
(* The error normalisation on its own: handleError applied to every shape  *)
(* of failure, with every default message a method passes.                 *)

BackendDefaults ==
    {"Failed to check connection validity", "Failed to get connection credentials",
     "Failed to get access token", "Failed to get Jira projects",
     "Failed to select Jira project", "Failed to get selected Jira project ID",
     "Failed to get Jira tickets", "Failed to get Jira tickets for sprint",
     "Failed to get Jira issue", "Failed to create Jira ticket",
     "Failed to edit Jira issue", "Failed to delete Jira issue",
     "Failed to get Jira sprints", "Failed to get active Jira sprints",
     "Failed to get Jira boards"}
FrontendDefaults ==
    {"Failed to get OAuth authorization URL", "Failed to redirect to OAuth"}

\* Payloads of a failed response: none, empty, and every combination of an
\* absent, empty or given error string and details.
NormPayloads ==
    {Undefined, Null, Str("")}
    \cup {Obj([k \in (IF e = Undefined THEN {} ELSE {"error"})
                      \cup (IF d = Undefined THEN {} ELSE {"details"})
                 |-> IF k = "error" THEN e ELSE d]) :
              e \in {Undefined, Str(""), Str(RemoteError)},
              d \in {Undefined, Str(""), Str(RemoteDetails)}}

NormErrors ==
    {AxiosError(m, r) :
        m \in {Str(""), Str("Network Error")},
        r \in {Undefined} \cup {Response(500, d) : d \in NormPayloads}}
    \cup {[NewError(Undefined) EXCEPT !.message = m] :
              m \in {Undefined, Str(""), Str("interceptor failed")}}
    \cup {TypeErrorOn(Null, "success")}

InitNormalize ==
    /\ heap = [a \in {} |-> NoFields]
    /\ clients = [c \in OneOfEach |-> NoClient]
    /\ calls = [k \in CallSlots |-> Idle]
    /\ window = FALSE
    /\ writes = 0
    /\ normIn = <<>>
    /\ normOut = <<>>

NormalizeBackend ==
    /\ \E error \in NormErrors, defaultMessage \in BackendDefaults :
          /\ normIn' = <<[error |-> error, defaultMessage |-> defaultMessage]>>
          /\ normOut' = <<handleError(error, defaultMessage)>>
    /\ UNCHANGED <<heap, clients, calls, window, writes>>

NormalizeFrontend ==
    /\ \E error \in NormErrors, defaultMessage \in FrontendDefaults :
          /\ normIn' = <<[error |-> error, defaultMessage |-> defaultMessage]>>
          /\ normOut' = <<frontendHandleError(error, defaultMessage)>>
    /\ UNCHANGED <<heap, clients, calls, window, writes>>

NextNormalize == NormalizeBackend \/ NormalizeFrontend

SpecNormalize == InitNormalize /\ [][NextNormalize]_vars

-----------------------------------------------------------------------------
(* A session of the Secret Client: the caller makes Jira calls on one      *)
(* instance, one after the other or without awaiting the one before, and   *)
(* keeps the results of the calls that ended.                              *)

SessionSlots == {1, 2}

InitSession ==
    /\ heap = [a \in {} |-> NoFields]
    /\ clients = [c \in OneOfEach |-> NoClient]
    /\ calls = [k \in SessionSlots |-> Idle]
    /\ window = FALSE
    /\ writes = 0
    /\ normIn = <<>>
    /\ normOut = <<>>

NextSession ==
    \/ \E c \in Backends \cap DOMAIN clients : NewClient(c)
    \/ \E k \in DOMAIN calls :
          \/ InvokeJira(k)
          \/ Settle(k)
          \/ Release(k)

SpecSession == InitSession /\ [][NextSession]_vars

-----------------------------------------------------------------------------
(* Concurrent calls: the caller makes calls on the two clients and reads   *)
(* their accessors without awaiting the call before.                       *)

InitConcurrent ==
    /\ heap = [a \in {} |-> NoFields]
    /\ clients = [c \in OneOfEach |-> NoClient]
    /\ calls = [k \in SessionSlots |-> Idle]
    /\ window = FALSE
    /\ writes = 0
    /\ normIn = <<>>
    /\ normOut = <<>>

NextConcurrent ==
    \/ \E c \in DOMAIN clients : NewClient(c)
    \/ \E k \in DOMAIN calls :
          \/ InvokeGetOAuthAuthorizationUrl(k)
          \/ InvokeGeneral(k)
          \/ Settle(k)
          \/ CallGetConfig(k)
          \/ CallGetHttpClient(k)
          \/ Release(k)

SpecConcurrent == InitConcurrent /\ [][NextConcurrent]_vars

-----------------------------------------------------------------------------
(* Several instances: the caller constructs and uses a JunctureFrontend    *)
(* and two JunctureBackend, each with a configuration of its own.          *)

InitInstances ==
    /\ heap = [a \in {} |-> NoFields]
    /\ clients = [c \in Clients |-> NoClient]
    /\ calls = [k \in CallSlots |-> Idle]
    /\ window = FALSE
    /\ writes = 0
    /\ normIn = <<>>
    /\ normOut = <<>>

NextInstances ==
    \/ \E c \in DOMAIN clients : NewClient(c)
    \/ \E k \in DOMAIN calls :
          \/ InvokeGetOAuthAuthorizationUrl(k)
          \/ InvokeGeneral(k)
          \/ Settle(k)
          \/ CallGetConfig(k)
          \/ CallGetHttpClient(k)
          \/ Release(k)

SpecInstances == InitInstances /\ [][NextInstances]_vars

-----------------------------------------------------------------------------
(* Properties.                                                             *)

Done(k) == calls[k].pc = "done"
Remote(k) == Done(k) /\ calls[k].op \in RemoteOps
Failure(k) == Remote(k) /\ ~calls[k].settled.ok
Thrown(k) == calls[k].outcome.kind = "throw"
Message(k) == calls[k].outcome.error.message

\* The status and the payload of the failed response of call k.
FailedStatus(k) == OptGet(calls[k].settled.error.response, "status")
FailedData(k) == OptGet(calls[k].settled.error.response, "data")

Missing(v) == v \in {Undefined, Str("")}
SuppliedUrl(c) == Get(Obj(clients[c].supplied), "junctureApiUrl")
SuppliedKey(c) == Get(Obj(clients[c].supplied), KeyField(c))

\* C1: constructing either client with a missing or empty junctureApiUrl fails
\* with 'junctureApiUrl is required'; constructing JunctureBackend with a
\* junctureApiUrl and a missing or empty junctureSecretKey fails with
\* 'junctureSecretKey is required'; constructing JunctureFrontend with a
\* junctureApiUrl and no juncturePublicKey succeeds.
C1_ConstructorValidation ==
    \A c \in DOMAIN clients :
        clients[c].state # "none" =>
            /\ Missing(SuppliedUrl(c)) =>
                  /\ clients[c].state = "failed"
                  /\ clients[c].error = NewError(Str("junctureApiUrl is required"))
            /\ (c \in Backends /\ ~Missing(SuppliedUrl(c)) /\ Missing(SuppliedKey(c))) =>
                  /\ clients[c].state = "failed"
                  /\ clients[c].error = NewError(Str("junctureSecretKey is required"))
            /\ (c \in Frontends /\ ~Missing(SuppliedUrl(c)) /\ SuppliedKey(c) = Undefined) =>
                  clients[c].state = "constructed"

C1_Witness ==
    /\ \E c \in Backends \cap DOMAIN clients :
          /\ clients[c].state = "failed"
          /\ SuppliedUrl(c) = Str(ApiUrl)
          /\ SuppliedKey(c) = Undefined
    /\ \E c \in Frontends :
          /\ clients[c].state = "constructed"
          /\ SuppliedKey(c) = Undefined

\* The failed response of call k has status 403 and a payload that marks
\* needs_reauthorization.
ReauthorizationDenied(k) ==
    /\ calls[k].settled.error.isAxiosError
    /\ FailedStatus(k) = Num(403)
    /\ Truthy(OptGet(FailedData(k), "needs_reauthorization"))

\* C2: getAccessToken, failing with status 403 and a payload with
\* needs_reauthorization true and error string E, throws an error whose message
\* is exactly "Reauthorization required: " followed by E.
C2_ReauthorizationMessage ==
    \A k \in DOMAIN calls :
        (/\ Failure(k)
         /\ calls[k].op = "getAccessToken"
         /\ ReauthorizationDenied(k)
         /\ TypeOf(Get(FailedData(k), "error")) = "string") =>
            /\ Thrown(k)
            /\ Message(k) = Str("Reauthorization required: "
                                \o Get(FailedData(k), "error")[2])

\* The case of C2 with details in the payload, which the message leaves out.
C2_Witness ==
    \E k \in DOMAIN calls :
        /\ Failure(k)
        /\ calls[k].op = "getAccessToken"
        /\ ReauthorizationDenied(k)
        /\ Get(FailedData(k), "error") = Str(RemoteError)
        /\ Get(FailedData(k), "details") = Str(RemoteDetails)
        /\ Message(k) = Str("Reauthorization required: Token expired")

\* C3: getAccessToken throws the reauthorization error if and only if the
\* failed response has status 403 and its payload marks needs_reauthorization;
\* every other failure (a 403 without the flag, another status with the flag)
\* throws the generic error handleError builds.
C3_ReauthorizationIff ==
    \A k \in DOMAIN calls :
        (Failure(k) /\ calls[k].op = "getAccessToken") =>
            /\ Thrown(k)
            /\ IF ReauthorizationDenied(k)
               THEN calls[k].outcome.error =
                        NewError(Str("Reauthorization required: "
                                     \o ToStr(Get(FailedData(k), "error"))))
               ELSE calls[k].outcome.error =
                        handleError(calls[k].settled.error, "Failed to get access token")

\* An error as the clients normalise it: a plain Error carrying a message, with
\* nothing of the transport's error left on it.
Normalized(e) ==
    /\ e.name = "Error"
    /\ ~e.isAxiosError
    /\ TypeOf(e.message) = "string"
    /\ e.message # Str("")
    /\ e.response = Undefined
    /\ e.config = Undefined

\* C4: for every remote-calling operation of both clients, a failed request
\* reaches the caller as one normalized error and no result, and no exception
\* reaches the caller that is not normalized.
C4_FailuresNormalized ==
    \A k \in DOMAIN calls :
        Remote(k) =>
            /\ Failure(k) => Thrown(k)
            /\ Thrown(k) =>
                  /\ Normalized(calls[k].outcome.error)
                  /\ calls[k].outcome.value = Undefined
                  /\ calls[k].navigated = <<>>

\* The message the normalisation builds, as it is documented: the base is the
\* remote error string if there is one, else the failure's own message if
\* there is one, else the default of the method; details are appended to it.
NonEmpty(v) == TypeOf(v) = "string" /\ v # Str("")
BaseMessage(error, defaultMessage) ==
    LET payload == OptGet(error.response, "data")
    IN  IF error.isAxiosError /\ NonEmpty(OptGet(payload, "error"))
        THEN OptGet(payload, "error")[2]
        ELSE IF NonEmpty(error.message) THEN error.message[2]
        ELSE defaultMessage
Details(error) ==
    IF error.isAxiosError
    THEN OptGet(OptGet(error.response, "data"), "details")
    ELSE Undefined

\* C5 as stated: a precedence of four, each level used only when the levels
\* before it are absent: the remote error string, else the details appended,
\* else the transport's own message, else the default of the method.
PrecedenceMessage(error, defaultMessage) ==
    LET payload == OptGet(error.response, "data")
    IN  IF error.isAxiosError /\ NonEmpty(OptGet(payload, "error"))
        THEN OptGet(payload, "error")[2]
        ELSE IF NonEmpty(Details(error))
        THEN BaseMessage(error, defaultMessage) \o ": " \o Details(error)[2]
        ELSE IF NonEmpty(error.message) THEN error.message[2]
        ELSE defaultMessage

C5_Precedence ==
    normOut # <<>> =>
        normOut[1].message =
            Str(PrecedenceMessage(normIn[1].error, normIn[1].defaultMessage))

\* C5, amended: the message is the remote error string if it is not empty,
\* else the failure's own message if it is not empty, else the default of the
\* method; and non-empty remote details are appended to it after ": ", also
\* when the remote error string is there.
C5_MessageWithDetails ==
    normOut # <<>> =>
        LET error == normIn[1].error
            base == BaseMessage(error, normIn[1].defaultMessage)
        IN  /\ normOut[1].name = "Error"
            /\ normOut[1].message =
                  IF NonEmpty(Details(error))
                  THEN Str(base \o ": " \o Details(error)[2])
                  ELSE Str(base)

\* An error response with an error string and details: both are in the message.
C5_Witness ==
    /\ normOut # <<>>
    /\ normIn[1].error.isAxiosError
    /\ OptGet(OptGet(normIn[1].error.response, "data"), "error") = Str(RemoteError)
    /\ Details(normIn[1].error) = Str(RemoteDetails)
    /\ normIn[1].error.message = Str("Network Error")
    /\ normOut[1].message = Str("Token expired: refresh failed")

\* The strings a value holds, those of the object it refers to included.
RECURSIVE Strings(_)
Strings(v) ==
    CASE TypeOf(v) \in {"string", "date"} -> {v[2]}
      [] TypeOf(v) \in {"object", "array"} ->
            UNION {Strings(v[2][f]) : f \in DOMAIN v[2]}
      [] TypeOf(v) = "ref" ->
            UNION {Strings(heap[v[2]][f]) : f \in DOMAIN heap[v[2]]}
      [] OTHER -> {}

ErrorStrings(e) == Strings(e.message) \cup Strings(e.response) \cup Strings(e.config)

\* t occurs in s
Contains(s, t) ==
    \E i \in 1..(Len(s) - Len(t) + 1) : SubSeq(s, i, i + Len(t) - 1) = t

\* What call k handed to the caller holds the key.
Exposes(k, key) ==
    \E s \in IF Thrown(k)
             THEN ErrorStrings(calls[k].outcome.error)
             ELSE Strings(calls[k].outcome.value) :
        Contains(s, key)

SecretOf(c) == SuppliedKey(c)[2]

\* C6 as stated: no public method of the Secret Client hands the secret key it
\* was constructed with to the caller.
C6_SecretNeverReturned ==
    \A k \in DOMAIN calls :
        (Done(k) /\ calls[k].client \in Backends) =>
            ~Exposes(k, SecretOf(calls[k].client))

\* C6, amended: no remote-calling method of the Secret Client hands the secret
\* key to the caller, in a result or in an error; getConfig() returns it in its
\* copy, and getHttpClient() returns the transport whose default headers hold it.
C6_SecretOnlyFromAccessors ==
    \A k \in DOMAIN calls :
        (Done(k) /\ calls[k].client \in Backends) =>
            LET c == calls[k].client
            IN  /\ calls[k].op \in RemoteOps => ~Exposes(k, SecretOf(c))
                /\ calls[k].op = "getHttpClient" => Exposes(k, SecretOf(c))
                /\ (/\ calls[k].op = "getConfig"
                    /\ ~calls[k].written
                    /\ ~clients[c].rewritten) => Exposes(k, SecretOf(c))

\* A request sent with the key failed, and the error thrown does not hold it.
C6_Witness ==
    \E k \in DOMAIN calls :
        /\ Failure(k)
        /\ calls[k].client \in Backends
        /\ \E s \in Strings(calls[k].settled.error.config) :
              Contains(s, SecretOf(calls[k].client))
        /\ Thrown(k)
        /\ ~Exposes(k, SecretOf(calls[k].client))

\* What getConfig() of client c returns in the current state.
ConfigNow(c) ==
    IF clients[c].state = "constructed" THEN getConfig(c, RetAddr(0)).fields ELSE NoFields

\* C7: getConfig() returns a new object whose fields equal those of the
\* configuration supplied at construction (the construction-time values, as
\* long as the caller has not itself rewritten the object it supplied), and a
\* write to an object getConfig() returned changes what getConfig() returns
\* for no client.
C7_GetConfigCopy ==
    [][\A k \in DOMAIN calls :
          /\ (calls[k].pc = "idle" /\ calls'[k].pc = "done"
                /\ calls'[k].op = "getConfig") =>
                LET c == calls'[k].client
                    returned == calls'[k].outcome.value
                IN  /\ calls'[k].outcome.kind = "return"
                    /\ TypeOf(returned) = "ref"
                    /\ returned[2] # ConfigAddr(c)
                    /\ heap'[returned[2]] = heap'[ConfigAddr(c)]
                    /\ ~clients[c].rewritten => heap'[returned[2]] = clients[c].supplied
          /\ (calls'[k].written /\ ~calls[k].written) =>
                \A c \in DOMAIN clients : ConfigNow(c)' = ConfigNow(c)
      ]_vars

\* A getConfig() after the caller wrote to what an earlier getConfig() returned.
C7_Witness ==
    \E k \in DOMAIN calls :
        /\ Done(k)
        /\ calls[k].op = "getConfig"
        /\ writes = 1
        /\ ~calls[k].written
        /\ \A c \in DOMAIN clients : ~clients[c].rewritten
        /\ heap[calls[k].outcome.value[2]] = clients[calls[k].client].supplied

\* C8: when the response to POST /initiate-oauth-flow carries
\* authorization_uri = U, getOAuthAuthorizationUrl returns a record with
\* authorizationUri = U.
C8_AuthorizationUriRenamed ==
    \A k \in DOMAIN calls :
        (/\ Done(k)
         /\ calls[k].op = "getOAuthAuthorizationUrl"
         /\ calls[k].settled.ok
         /\ TypeOf(OptGet(Get(calls[k].settled.response, "data"),
                          "authorization_uri")) = "string") =>
            /\ calls[k].outcome.kind = "return"
            /\ OptGet(calls[k].outcome.value, "authorizationUri") =
                  Get(Get(calls[k].settled.response, "data"), "authorization_uri")

\* C9: redirectToOAuth where there is no window throws, for every supported
\* framework: it never returns normally, and it navigates nowhere; when its
\* request succeeded, the error says that window is not available.
C9_NoWindowFails ==
    \A k \in DOMAIN calls :
        (/\ Done(k)
         /\ calls[k].op = "redirectToOAuth"
         /\ ~window
         /\ FrameworkParam(calls[k].args.framework)
                \in {Str(f) : f \in SupportedFramework}) =>
            /\ Thrown(k)
            /\ calls[k].navigated = <<>>
            /\ calls[k].settled.ok =>
                  Message(k) = Str("window is not available in server-side environment")

C9_Witness ==
    \E k \in DOMAIN calls :
        /\ Done(k)
        /\ calls[k].op = "redirectToOAuth"
        /\ ~window
        /\ calls[k].args.framework = Str("vue")
        /\ calls[k].settled.ok
        /\ Get(Get(calls[k].settled.response, "data"), "authorizationUri")
              = Str(AuthorizationUri)
        /\ Message(k) = Str("window is not available in server-side environment")

\* C10: reauthorizeConnection(provider, externalId, framework) and
\* completeIntegration(provider, externalId, framework) do what
\* redirectToOAuth({provider, externalId}, framework) does: the same request,
\* and for the same response and environment the same navigation and the same
\* result or error.
C10_AliasesOfRedirect ==
    \A k \in DOMAIN calls :
        (Done(k) /\ calls[k].op \in {"reauthorizeConnection", "completeIntegration"}) =>
            LET request == Obj([provider |-> calls[k].args.provider,
                                externalId |-> calls[k].args.externalId])
                redirected == redirectToOAuth(request, calls[k].args.framework,
                                              calls[k].settled, window)
            IN  /\ calls[k].request = getOAuthAuthorizationUrlRequest(request)
                /\ calls[k].outcome = redirected.outcome
                /\ calls[k].navigated = redirected.navigated

\* reauthorizeConnection with a framework other than the default navigated.
C10_Witness ==
    \E k \in DOMAIN calls :
        /\ Done(k)
        /\ calls[k].op = "reauthorizeConnection"
        /\ calls[k].args.framework = Str("svelte")
        /\ calls[k].settled.ok
        /\ Thrown(k)
        /\ Message(k) = Str("Unsupported framework: svelte")


Answered(k) ==
    /\ Done(k)
    /\ calls[k].settled.ok
    /\ TypeOf(Data(calls[k].settled)) = "object"

\* The record the remote answered call k with omits field f.
Omits(k, f) == f \notin DOMAIN Data(calls[k].settled)[2]

\* The operations that return a page of a list, and the name of the list of
\* every operation that returns one.
PagedOps == {"getTickets", "getTicketsForSprint", "getSprints", "getBoards"}
ListOps == PagedOps \cup {"getProjects", "getActiveSprints"}
ItemsOf(op) ==
    CASE op \in {"getTickets", "getTicketsForSprint"} -> "tickets"
      [] op \in {"getSprints", "getActiveSprints"} -> "sprints"
      [] op = "getBoards" -> "boards"
      [] op = "getProjects" -> "projects"

\* C12: a list-returning operation whose response omits total, startAt or
\* maxResults returns 0, 0 and 50 in their place, and one whose response omits
\* the list of items returns an empty list; getProjects and getActiveSprints
\* return the list alone.
C12_ListDefaults ==
    \A k \in DOMAIN calls :
        (Answered(k) /\ calls[k].op \in ListOps) =>
            LET returned == calls[k].outcome.value
            IN  /\ ~Thrown(k)
                /\ Omits(k, ItemsOf(calls[k].op)) =>
                      Get(returned, ItemsOf(calls[k].op)) = Arr(<<>>)
                /\ calls[k].op \in PagedOps =>
                      /\ Omits(k, "total") => Get(returned, "total") = Num(0)
                      /\ Omits(k, "startAt") => Get(returned, "startAt") = Num(0)
                      /\ Omits(k, "maxResults") => Get(returned, "maxResults") = Num(50)

\* A page whose response had a total and a page size but no list and no start.
C12_Witness ==
    \E k \in DOMAIN calls :
        /\ Answered(k)
        /\ calls[k].op = "getTicketsForSprint"
        /\ Data(calls[k].settled) = Obj([total |-> Num(7), maxResults |-> Num(10)])
        /\ calls[k].outcome.value =
              Obj([tickets |-> Arr(<<>>), total |-> Num(7), startAt |-> Num(0),
                   maxResults |-> Num(10)])

SuccessOps == {"selectProject", "createTicket", "editIssue", "deleteIssue"}

\* C13: selectProject, createTicket, editIssue and deleteIssue return
\* success = true when the request did not fail and the response omits the
\* success flag.
C13_SuccessDefault ==
    \A k \in DOMAIN calls :
        (Answered(k) /\ calls[k].op \in SuccessOps /\ Omits(k, "success")) =>
            /\ ~Thrown(k)
            /\ Get(calls[k].outcome.value, "success") = Bool(TRUE)

C13_Witness ==
    \E k \in DOMAIN calls :
        /\ Answered(k)
        /\ calls[k].op = "editIssue"
        /\ Data(calls[k].settled) = Obj(NoFields)
        /\ calls[k].outcome.value = Obj([success |-> Bool(TRUE)])

\* The response of call k supplies a value for field f.
Supplies(k, f) == ~Omits(k, f) /\ Data(calls[k].settled)[2][f] # Null

\* C14: checkConnectionValidity returns exists and isInvalid as the remote
\* sent exists and is_invalid, and expiresAt as the date of expires_at exactly
\* when the response supplied one; a response without expires_at gives
\* expiresAt undefined and no error.
C14_ExpiresAtOptional ==
    \A k \in DOMAIN calls :
        (Answered(k) /\ calls[k].op = "checkConnectionValidity") =>
            LET data == Data(calls[k].settled)
                returned == calls[k].outcome.value
            IN  /\ ~Thrown(k)
                /\ DOMAIN returned[2] = {"exists", "isInvalid", "expiresAt"}
                /\ Get(returned, "exists") = Get(data, "exists")
                /\ Get(returned, "isInvalid") = Get(data, "is_invalid")
                /\ Get(returned, "expiresAt") =
                      IF Supplies(k, "expires_at")
                      THEN NewDate(Get(data, "expires_at"))
                      ELSE Undefined

\* The example of the specification: no expires_at, no error.
C14_Witness ==
    \E k \in DOMAIN calls :
        /\ Answered(k)
        /\ calls[k].op = "checkConnectionValidity"
        /\ Data(calls[k].settled) = Obj([exists |-> Bool(TRUE), is_invalid |-> Bool(FALSE)])
        /\ calls[k].outcome =
              Return(Obj([exists |-> Bool(TRUE), isInvalid |-> Bool(FALSE),
                          expiresAt |-> Undefined]))

\* C15: createTicket returns {success, ticketKey, ticketId} with ticketKey the
\* ticket_key and ticketId the ticket_id of the response, each undefined when
\* the response omits it; a response with success true gives success true.
C15_CreateTicketMapping ==
    \A k \in DOMAIN calls :
        (Answered(k) /\ calls[k].op = "createTicket") =>
            LET data == Data(calls[k].settled)
                returned == calls[k].outcome.value
            IN  /\ ~Thrown(k)
                /\ DOMAIN returned[2] = {"success", "ticketKey", "ticketId"}
                /\ Get(returned, "ticketKey") =
                      IF Omits(k, "ticket_key") THEN Undefined ELSE data[2]["ticket_key"]
                /\ Get(returned, "ticketId") =
                      IF Omits(k, "ticket_id") THEN Undefined ELSE data[2]["ticket_id"]
                /\ Get(data, "success") = Bool(TRUE) =>
                      Get(returned, "success") = Bool(TRUE)

\* The example of the specification: a ticket key and no ticket id.
C15_Witness ==
    \E k \in DOMAIN calls :
        /\ Answered(k)
        /\ calls[k].op = "createTicket"
        /\ Data(calls[k].settled) =
              Obj([success |-> Bool(TRUE), ticket_key |-> Str("PROJ-42")])
        /\ calls[k].outcome =
              Return(Obj([success |-> Bool(TRUE), ticketKey |-> Str("PROJ-42"),
                          ticketId |-> Undefined]))

\* Call k of a remote-calling operation has sent its request.
Sent(k) == calls[k].pc \in {"awaiting", "done"} /\ calls[k].op \in RemoteOps

\* C17: every remote-calling operation of either client sends one request per
\* invocation, the one its arguments determine, and none after it: while the
\* request is in flight and after the call ended, by success or by failure, one
\* request has been sent; and a request that failed ends the call with an error.
C17_OneRequestPerCall ==
    \A k \in DOMAIN calls :
        Sent(k) =>
            /\ calls[k].sent = 1
            /\ calls[k].request = RequestOf(calls[k].op, calls[k].args)
            /\ Failure(k) => Thrown(k)

\* An alias of redirectToOAuth whose one request failed.
C17_Witness ==
    \E k \in DOMAIN calls :
        /\ Failure(k)
        /\ calls[k].op = "completeIntegration"
        /\ calls[k].settled.error.message = Str("Network Error")
        /\ calls[k].sent = 1
        /\ Thrown(k)

\* C18: a request of the Secret Client carries X-Juncture-Secret-Key with the
\* secret key the client was constructed with; a request of the Public Client
\* carries X-Juncture-Public-Key with the public key it was constructed with
\* when there was one, and no such header otherwise; both carry
\* Content-Type: application/json.
C18_KeyHeaders ==
    \A k \in DOMAIN calls :
        Sent(k) =>
            LET c == calls[k].client
                headers == calls[k].headers
            IN  /\ Get(headers, "Content-Type") = Str("application/json")
                /\ c \in Backends =>
                      /\ Get(headers, "X-Juncture-Secret-Key") = SuppliedKey(c)
                      /\ NonEmpty(SuppliedKey(c))
                      /\ DOMAIN headers[2] = {"Content-Type", "X-Juncture-Secret-Key"}
                /\ (c \in Frontends /\ NonEmpty(SuppliedKey(c))) =>
                      /\ Get(headers, "X-Juncture-Public-Key") = SuppliedKey(c)
                      /\ DOMAIN headers[2] = {"Content-Type", "X-Juncture-Public-Key"}
                /\ (c \in Frontends /\ ~NonEmpty(SuppliedKey(c))) =>
                      DOMAIN headers[2] = {"Content-Type"}

\* A request of a Public Client constructed without a key.
C18_Witness ==
    \E k \in DOMAIN calls :
        /\ Sent(k)
        /\ calls[k].client \in Frontends
        /\ SuppliedKey(calls[k].client) = Undefined
        /\ calls[k].headers = Obj("Content-Type" :> Str("application/json"))

\* C20: redirectToOAuth assigns window.location.href only after its request
\* succeeded, once, with the authorizationUri of the record the request
\* returned; while the request is in flight it has not navigated; a request that
\* failed ends the call with an error and without navigation; and where there
\* is a window, a supported framework and a record in the response, it does
\* navigate.
C20_NavigateAfterRequest ==
    \A k \in DOMAIN calls :
        (Sent(k) /\ calls[k].op = "redirectToOAuth") =>
            LET data == Data(calls[k].settled)
            IN  /\ calls[k].pc = "awaiting" => calls[k].navigated = <<>>
                /\ calls[k].navigated # <<>> =>
                      /\ Done(k)
                      /\ calls[k].settled.ok
                      /\ ~Thrown(k)
                      /\ calls[k].navigated = <<OptGet(data, "authorizationUri")>>
                /\ Failure(k) =>
                      /\ Thrown(k)
                      /\ calls[k].navigated = <<>>
                /\ (/\ Answered(k)
                    /\ window
                    /\ FrameworkParam(calls[k].args.framework)
                           \in {Str(f) : f \in SupportedFramework}) =>
                      calls[k].navigated = <<Get(data, "authorizationUri")>>

\* A redirect that navigated to the URI its request returned.
C20_Witness ==
    \E k \in DOMAIN calls :
        /\ Answered(k)
        /\ calls[k].op = "redirectToOAuth"
        /\ calls[k].args.framework = Undefined
        /\ window
        /\ Data(calls[k].settled) = Obj([authorizationUri |-> Str(AuthorizationUri)])
        /\ ~Thrown(k)
        /\ calls[k].navigated = <<Str(AuthorizationUri)>>

\* The instance of client c holds what its constructor gave it and no more.
StoresNothing(c) ==
    /\ heap[ConfigAddr(c)] = clients[c].supplied
    /\ heap[HttpAddr(c)] = Construct(c, clients[c].supplied).httpClient
    /\ DOMAIN heap = {ConfigAddr(c), HttpAddr(c)}

\* Call k of operation op was made after call j had ended, and has ended too.
Followed(j, op1, k, op2) ==
    /\ Answered(j)
    /\ calls[j].op = op1
    /\ Answered(k)
    /\ calls[k].op = op2
    /\ j \in calls[k].after
    /\ calls[k].client = calls[j].client

\* C16: in selectProject({projectId: P}) followed by getSelectedProjectId(),
\* the first call sends POST /select-project with project_id = P and returns
\* {success: true} when the remote answers {success: true}; the second sends
\* GET /get-selected-project-id with nothing of the first call in it and returns
\* {projectId: Q} when the remote answers {project_id: Q}; and the instance
\* holds after the two calls what it held after construction.
C16_SelectThenGetSelected ==
    \A j, k \in DOMAIN calls :
        Followed(j, "selectProject", k, "getSelectedProjectId") =>
            /\ calls[j].request =
                  [method |-> "POST", url |-> "/select-project", params |-> NoFields,
                   data |-> [project_id |-> Get(calls[j].args.request, "projectId")]]
            /\ Data(calls[j].settled) = Obj([success |-> Bool(TRUE)]) =>
                  calls[j].outcome = Return(Obj([success |-> Bool(TRUE)]))
            /\ calls[k].request =
                  [method |-> "GET", url |-> "/get-selected-project-id",
                   params |-> NoFields, data |-> NoFields]
            /\ TypeOf(Get(Data(calls[k].settled), "project_id")) = "string" =>
                  calls[k].outcome =
                      Return(Obj([projectId |-> Get(Data(calls[k].settled), "project_id")]))
            /\ StoresNothing(calls[k].client)

\* The example of the specification.
C16_Witness ==
    \E j, k \in DOMAIN calls :
        /\ Followed(j, "selectProject", k, "getSelectedProjectId")
        /\ calls[j].args.request = Obj([projectId |-> Str("10")])
        /\ Data(calls[j].settled) = Obj([success |-> Bool(TRUE)])
        /\ calls[j].outcome = Return(Obj([success |-> Bool(TRUE)]))
        /\ Data(calls[k].settled) = Obj([project_id |-> Str("10")])
        /\ calls[k].outcome = Return(Obj([projectId |-> Str("10")]))

\* The remote accepted the request of call k.
Accepted(k) == Answered(k) /\ Get(Data(calls[k].settled), "success") # Bool(FALSE)

\* C19: selectProject called twice in a row with the same projectId, the remote
\* accepting both requests: both calls return {success: true}, and the second
\* sends the request the first sent, with the same headers.
C19_SelectIdempotent ==
    \A j, k \in DOMAIN calls :
        (/\ Followed(j, "selectProject", k, "selectProject")
         /\ calls[k].args = calls[j].args
         /\ Accepted(j)
         /\ Accepted(k)) =>
            /\ calls[j].outcome = Return(Obj([success |-> Bool(TRUE)]))
            /\ calls[k].outcome = calls[j].outcome
            /\ calls[k].request = calls[j].request
            /\ calls[k].headers = calls[j].headers

\* The same project selected twice, the remote answering the second time
\* without a success flag.
C19_Witness ==
    \E j, k \in DOMAIN calls :
        /\ Followed(j, "selectProject", k, "selectProject")
        /\ calls[j].args.request = Obj([projectId |-> Str("10")])
        /\ calls[k].args = calls[j].args
        /\ Data(calls[j].settled) = Obj([success |-> Bool(TRUE)])
        /\ Data(calls[k].settled) = Obj(NoFields)
        /\ calls[k].outcome = Return(Obj([success |-> Bool(TRUE)]))

\* C21: when the response of selectProject, createTicket, editIssue or
\* deleteIssue carries a success flag, the success returned is that flag; a
\* response with success false is returned as success false.
C21_SuccessFlagReturned ==
    \A k \in DOMAIN calls :
        (Answered(k) /\ calls[k].op \in SuccessOps /\ ~Omits(k, "success")) =>
            /\ ~Thrown(k)
            /\ Get(calls[k].outcome.value, "success") =
                  Get(Data(calls[k].settled), "success")

\* C22: when the response of a paginated list operation supplies total, startAt
\* or maxResults, the value returned is the value supplied, 0 included.
C22_PaginationReturned ==
    \A k \in DOMAIN calls :
        (Answered(k) /\ calls[k].op \in PagedOps) =>
            \A f \in {"total", "startAt", "maxResults"} :
                ~Omits(k, f) =>
                    Get(calls[k].outcome.value, f) = Get(Data(calls[k].settled), f)

\* C23: getAccessToken failing with status 403 and a response without a payload
\* (null or undefined) throws the error handleError builds from the failure.
C23_AbsentPayloadNormalized ==
    \A k \in DOMAIN calls :
        (/\ Failure(k)
         /\ calls[k].op = "getAccessToken"
         /\ calls[k].settled.error.isAxiosError
         /\ FailedStatus(k) = Num(403)
         /\ IsNullish(FailedData(k))) =>
            /\ Thrown(k)
            /\ calls[k].outcome.error =
                  handleError(calls[k].settled.error, "Failed to get access token")

\* C24: whatever the clients and the caller have done since the constructor
\* returned, getConfig() returns the values supplied at construction.
C24_ConfigImmutable ==
    \A c \in DOMAIN clients :
        clients[c].state = "constructed" => ConfigNow(c) = clients[c].supplied

Constructed(c) == clients[c].state = "constructed"

\* The key header of the class of client c.
KeyHeader(c) ==
    IF c \in Frontends THEN "X-Juncture-Public-Key" ELSE "X-Juncture-Secret-Key"

\* C25: the default headers of the transport of a client are written by its
\* constructor and by nothing after it: no step of a request method, of
\* getConfig or of getHttpClient changes them, and all the calls in progress on
\* one client were sent with the same headers, those of its transport.
C25_HeadersWrittenOnce ==
    /\ [](\A k \in DOMAIN calls :
             Sent(k) => calls[k].headers = heap[HttpAddr(calls[k].client)].headers)
    /\ [][\A c \in DOMAIN clients :
             /\ Constructed(c) => heap'[HttpAddr(c)] = heap[HttpAddr(c)]
             /\ (HttpAddr(c) \in DOMAIN heap' /\ HttpAddr(c) \notin DOMAIN heap) =>
                   (clients[c].state = "none" /\ Constructed(c)')
         ]_vars

\* Two calls in flight at once on a Public Client that has a key.
C25_Witness ==
    \E j, k \in DOMAIN calls :
        /\ j # k
        /\ calls[j].pc = "awaiting"
        /\ calls[k].pc = "awaiting"
        /\ calls[j].client = "frontend"
        /\ calls[k].client = "frontend"
        /\ calls[j].headers = calls[k].headers
        /\ Get(calls[k].headers, "X-Juncture-Public-Key") = Str(PublicKey)

\* C26: constructing an instance or calling an operation of it changes the
\* configuration and the transport, default headers included, of no instance
\* that was constructed before; every request carries the key of the instance
\* it was made on.
C26_InstancesIsolated ==
    /\ [](\A k \in DOMAIN calls :
             (Sent(k) /\ NonEmpty(SuppliedKey(calls[k].client))) =>
                 Get(calls[k].headers, KeyHeader(calls[k].client))
                     = SuppliedKey(calls[k].client))
    /\ [][\A d \in DOMAIN clients :
             Constructed(d) =>
                 /\ heap'[ConfigAddr(d)] = heap[ConfigAddr(d)]
                 /\ heap'[HttpAddr(d)] = heap[HttpAddr(d)]
                 /\ clients'[d] = clients[d]
         ]_vars

\* Two Secret Clients with different keys and a Public Client with its own: a
\* request of the second Secret Client carries the second key.
C26_Witness ==
    /\ \A c \in Clients : Constructed(c)
    /\ SuppliedKey("frontend") = Str(PublicKey)
    /\ SuppliedKey("backend") = Str(SecretKey)
    /\ SuppliedKey("backend2") = Str(OtherSecretKey)
    /\ \E k \in DOMAIN calls :
          /\ Sent(k)
          /\ calls[k].client = "backend2"
          /\ Get(calls[k].headers, "X-Juncture-Secret-Key") = Str(OtherSecretKey)
          /\ Get(heap[HttpAddr("backend")].headers, "X-Juncture-Secret-Key")
                = Str(SecretKey)

\* C27: of the calls in progress at once on one client, each ends with what its
\* own arguments and the settlement of its own request determine, in whatever
\* order requests are sent and settle; the sending and the settling of the
\* request of one call, a failure included, changes nothing of another call.
C27_CallsIndependent ==
    /\ [](\A k \in DOMAIN calls :
             Remote(k) =>
                 /\ calls[k].outcome =
                       Complete(calls[k].op, calls[k].args, calls[k].settled,
                                window).outcome
                 /\ calls[k].request = RequestOf(calls[k].op, calls[k].args))
    /\ [][\A j, k \in DOMAIN calls :
             (/\ j # k
              /\ \/ calls[j].pc = "idle" /\ calls'[j].pc = "awaiting"
                 \/ calls[j].pc = "awaiting" /\ calls'[j].pc = "done") =>
                 calls'[k] = calls[k]
         ]_vars

\* Two calls made without awaiting: one failed, the other returned its result.
C27_Witness ==
    \E j, k \in DOMAIN calls :
        /\ j # k
        /\ calls[j].client = calls[k].client
        /\ calls[j].after = {}
        /\ calls[k].after = {}
        /\ Failure(j)
        /\ Thrown(j)
        /\ Answered(k)
        /\ calls[k].op = "getSelectedProjectId"
        /\ calls[k].outcome = Return(Obj([projectId |-> Str("10")]))

\* The endpoint table: the HTTP method and the path of every operation.
Endpoint(op) ==
    CASE op \in FrontendOps -> <<"POST", "/initiate-oauth-flow">>
      [] op = "checkConnectionValidity" -> <<"GET", "/check-connection-validity">>
      [] op = "getConnectionCredentials" -> <<"GET", "/get-connection-credentials">>
      [] op = "getAccessToken" -> <<"GET", "/get-access-token">>
      [] op = "getProjects" -> <<"GET", "/get-all-projects">>
      [] op = "selectProject" -> <<"POST", "/select-project">>
      [] op = "getSelectedProjectId" -> <<"GET", "/get-selected-project-id">>
      [] op = "getTickets" -> <<"GET", "/get-tickets-for-project">>
      [] op = "getTicketsForSprint" -> <<"GET", "/get-tickets-for-sprint">>
      [] op = "getIssue" -> <<"GET", "/get-issue-details">>
      [] op = "createTicket" -> <<"POST", "/create-ticket">>
      [] op = "editIssue" -> <<"PUT", "/edit-issue">>
      [] op = "deleteIssue" -> <<"DELETE", "/delete-issue">>
      [] op = "getSprints" -> <<"GET", "/get-all-sprints-for-project">>
      [] op = "getActiveSprints" -> <<"GET", "/get-active-sprints-for-project">>
      [] op = "getBoards" -> <<"GET", "/get-boards-for-project">>

\* The name on the wire of a field of a request.
WireName(field) ==
    CASE field = "externalId" -> "external_id"
      [] field = "projectId" -> "project_id"
      [] field = "sprintId" -> "sprint_id"
      [] field = "issueKey" -> "issue_key"
      [] field = "projectKey" -> "project_key"
      [] field = "issueType" -> "issue_type"
      [] OTHER -> field

\* The fields the caller gave call k: those of its request object, none when
\* there is no request object; an alias of redirectToOAuth is given its
\* provider and externalId as arguments.
Given(k) ==
    IF calls[k].op \in {"reauthorizeConnection", "completeIntegration"}
    THEN [provider |-> calls[k].args.provider, externalId |-> calls[k].args.externalId]
    ELSE IF TypeOf(calls[k].args.request) = "object"
    THEN calls[k].args.request[2]
    ELSE NoFields

\* The fields given, under their names on the wire.
OnWire(given) ==
    [w \in {WireName(f) : f \in DOMAIN given} |->
        given[CHOOSE f \in DOMAIN given : WireName(f) = w]]

\* C28: every operation sends its request with the method and to the path of
\* the endpoint table, with the fields the caller gave under their wire names
\* (externalId as external_id, projectId as project_id, sprintId as sprint_id,
\* issueKey as issue_key, projectKey as project_key, issueType as issue_type,
\* the others, maxResults and startAt among them, unchanged) and no other
\* field: as query parameters for GET and DELETE, in the body for POST and PUT.
C28_RequestMapping ==
    \A k \in DOMAIN calls :
        Sent(k) =>
            LET endpoint == Endpoint(calls[k].op)
                query == endpoint[1] \in {"GET", "DELETE"}
            IN  /\ calls[k].request.method = endpoint[1]
                /\ calls[k].request.url = endpoint[2]
                /\ calls[k].request.params =
                      IF query THEN OnWire(Given(k)) ELSE NoFields
                /\ calls[k].request.data =
                      IF query THEN NoFields ELSE OnWire(Given(k))

\* The tickets of a sprint asked for without maxResults and startAt.
C28_Witness ==
    \E k \in DOMAIN calls :
        /\ Sent(k)
        /\ calls[k].op = "getTicketsForSprint"
        /\ calls[k].args.request = Obj([sprintId |-> Str("7")])
        /\ calls[k].request =
              [method |-> "GET", url |-> "/get-tickets-for-sprint",
               params |-> [sprint_id |-> Str("7")], data |-> NoFields]

====
